---- MODULE Spec2Model ----
(***************************************************************************)
(* Buyer/seller messaging of the classifieds backend (src/messaging):      *)
(* conversations, the message log, blocking, and notification records.     *)
(* Every request handler is a pure operator from (database, request) to    *)
(* (database, response); an action commits one handler's result.           *)
(***************************************************************************)
EXTENDS Integers, FiniteSets, Bags, TLC

\* --------------------------------------------------------------- bounds
\* conversations a run of Spec may open
MaxConvs == 2
\* rows a run of ConcSpec may insert, and the requests it handles at once
ConcMaxConvs == 1
ConcMaxMsgs == 2
MaxInflight == 2
\* rows (conversations and messages together) a run of CreateSpec may insert
CreateMaxRows == 2
\* rows a run of BlockedPartySpec may insert
PartyMaxConvs == 1
PartyMaxMsgs == 1
\* rows (conversations and messages together) a run of FrameSpec may insert
FrameMaxRows == 2
\* rows a run of AppendSpec may insert
ReadMaxConvs == 2
ReadMaxMsgs == 2
ReadMaxRows == 3

MessageMaxConvs == 1
MessageMaxMsgs == 2

NotifyMaxRows == 2

NotificationMaxRows == 3

RaceMaxConvs == 2

ListMaxConvs == 3

ListMaxMsgs == 1

FlagMaxConvs == 1

FlagMaxMsgs == 1

\* the last time at which a request is taken up or continued
FlagMaxTime == 5

ArchiveMaxConvs == 1

ArchiveMaxMsgs == 1

SendRaceMaxConvs == 1

SendRaceMaxMsgs == 2

AppendMaxConvs == 1
AppendMaxMsgs == 2

\* ------------------------------------------------- external directories
Users == {"u1", "u2", "u3"}
NoUser == "none"
Ads == {"a1", "a2", "a3"}

\* ad.user: the listing's owner (serializers.py, seller = ad.user)
AdOwner(ad) == CASE ad = "a1" -> "u2" [] ad = "a2" -> "u1" [] OTHER -> "u2"

\* Ad.objects.get(id=value, status="approved") finds the ad
AdApproved(ad) == ad \in {"a1", "a2"}

\* recipient.email_message_notifications
EmailMessageNotifications(u) == u # "u2"

MessageTypes == {"text", "image", "system"}
Contents == {"", "hi"}
Transport == {"delivered", "smtp_error", "render_error"}
StatusFilters == {"active", "blocked", "archived", "all"}

\* ----------------------------------------------------------------- state
VARIABLES
    conversations,   \* id -> Conversation row
    messages,        \* id -> Message row
    notifications,   \* id -> Notification row
    now,             \* the next value timezone.now() returns
    seq,             \* the tables' auto-increment counters
    email_on,        \* settings.NOTIFICATION_SETTINGS['EMAIL_NOTIFICATIONS']
    outbox,          \* the calls of EmailService.send_email made so far
    standing,        \* <<a, b>>: a blocked b, and only b has made requests since
    inflight         \* requests being handled step by step (concurrent handling)

dbvars == <<conversations, messages, notifications, now, seq, email_on, outbox>>
vars == <<conversations, messages, notifications, now, seq, email_on, outbox,
          standing, inflight>>

\* The database as one value, so that a handler is a function of it.
DB ==
    [conversations |-> conversations, messages |-> messages,
     notifications |-> notifications, now |-> now, seq |-> seq,
     email_on |-> email_on, outbox |-> outbox]

Resp(op, status, detail, val) ==
    [op |-> op, status |-> status, detail |-> detail, val |-> val]

Result(d, op, status, detail, val) ==
    [db |-> d, resp |-> Resp(op, status, detail, val)]

ConvIds(d) == DOMAIN d.conversations
MsgIds(d) == DOMAIN d.messages
NotifIds(d) == DOMAIN d.notifications

\* ---------------------------------------------------- Conversation model
\* Q(buyer=a, seller=b) | Q(buyer=b, seller=a)
IsPair(c, a, b) ==
    \/ c.buyer = a /\ c.seller = b
    \/ c.buyer = b /\ c.seller = a

PairConvs(d, a, b) == {i \in ConvIds(d) : IsPair(d.conversations[i], a, b)}

IsParticipant(c, u) == u \in {c.buyer, c.seller}

\* Conversation.get_other_user
get_other_user_as_seller(c, user) == IF user = c.seller THEN c.seller ELSE c.buyer

get_other_user(c, user) == IF user = c.buyer THEN c.seller ELSE c.buyer

MessagesOf(d, i) == {m \in MsgIds(d) : d.messages[m].conversation = i}

\* Conversation.get_unread_count
get_unread_count(d, i, user) ==
    Cardinality({m \in MessagesOf(d, i) :
                    ~d.messages[m].is_read /\ d.messages[m].sender # user})

\* a marking that also stamps the conversation with the time of the read
mark_as_read_touching(d, i, user) ==
    LET hit == {m \in MessagesOf(d, i) :
                    ~d.messages[m].is_read /\ d.messages[m].sender # user}
    IN  IF hit = {} THEN d
        ELSE [d EXCEPT
                !.messages = [m \in MsgIds(d) |->
                    IF m \in hit
                    THEN [d.messages[m] EXCEPT !.is_read = TRUE, !.read_at = d.now]
                    ELSE d.messages[m]],
                !.conversations[i].last_message_at = d.now,
                !.now = d.now + 1]

\* a marking that stamps every message of the other participant, read or not
mark_as_read_restamping(d, i, user) ==
    LET hit == {m \in MessagesOf(d, i) : d.messages[m].sender # user}
    IN  IF hit = {} THEN d
        ELSE [d EXCEPT
                !.messages = [m \in MsgIds(d) |->
                    IF m \in hit
                    THEN [d.messages[m] EXCEPT !.is_read = TRUE, !.read_at = d.now]
                    ELSE d.messages[m]],
                !.now = d.now + 1]

\* a marking that does not leave out the caller's own messages
mark_as_read_including_sender(d, i, user) ==
    LET hit == {m \in MessagesOf(d, i) : ~d.messages[m].is_read}
    IN  IF hit = {} THEN d
        ELSE [d EXCEPT
                !.messages = [m \in MsgIds(d) |->
                    IF m \in hit
                    THEN [d.messages[m] EXCEPT !.is_read = TRUE, !.read_at = d.now]
                    ELSE d.messages[m]],
                !.now = d.now + 1]

\* Conversation.mark_as_read: one UPDATE over the unread messages not sent by user
mark_as_read(d, i, user) ==
    LET hit == {m \in MessagesOf(d, i) :
                    ~d.messages[m].is_read /\ d.messages[m].sender # user}
    IN  IF hit = {} THEN d
        ELSE [d EXCEPT
                !.messages = [m \in MsgIds(d) |->
                    IF m \in hit
                    THEN [d.messages[m] EXCEPT !.is_read = TRUE, !.read_at = d.now]
                    ELSE d.messages[m]],
                !.now = d.now + 1]

\* ------------------------------------------------- NotificationService
\* EmailService.send_email(..., fail_silently=True): a template or config
\* failure returns False; a transport error is swallowed by msg.send and the
\* call returns True.
send_email(tr) == tr # "render_error"

create_notification_ignoring_toggle(d, recipient, notification_type, conv, tr) ==
    LET should_send_email ==
            IF notification_type \in {"new_message", "new_conversation"}
            THEN EmailMessageNotifications(recipient)
            ELSE TRUE
        called == should_send_email
        sent == called /\ send_email(tr)
        n == [recipient |-> recipient, notification_type |-> notification_type,
              conversation |-> conv, is_read |-> FALSE, read_at |-> 0,
              email_sent |-> sent]
    IN  [d EXCEPT
            !.notifications = (d.seq.notif :> n) @@ d.notifications,
            !.seq = [d.seq EXCEPT !.notif = d.seq.notif + 1],
            !.outbox = IF called
                       THEN d.outbox \cup {[notification |-> d.seq.notif,
                                            to |-> recipient, transport |-> tr]}
                       ELSE d.outbox]

\* NotificationService.create_notification (+ _send_email_notification)
create_notification(d, recipient, notification_type, conv, tr) ==
    LET should_send_email ==
            IF notification_type \in {"new_message", "new_conversation"}
            THEN EmailMessageNotifications(recipient)
            ELSE TRUE
        called == should_send_email /\ d.email_on
        sent == called /\ send_email(tr)
        n == [recipient |-> recipient, notification_type |-> notification_type,
              conversation |-> conv, is_read |-> FALSE, read_at |-> 0,
              email_sent |-> sent]
    IN  [d EXCEPT
            !.notifications = (d.seq.notif :> n) @@ d.notifications,
            !.seq = [d.seq EXCEPT !.notif = d.seq.notif + 1],
            !.outbox = IF called
                       THEN d.outbox \cup {[notification |-> d.seq.notif,
                                            to |-> recipient, transport |-> tr]}
                       ELSE d.outbox]

\* --------------------------------------------------------------- signals
\* post_save(Conversation): conversation_created
conversation_created_on_every_save(d, i, created, tr) ==
    create_notification(d, d.conversations[i].seller, "new_conversation", i, tr)

conversation_created(d, i, created, tr) ==
    IF created
    THEN create_notification(d, d.conversations[i].seller, "new_conversation", i, tr)
    ELSE d

\* Model.save() of the existing conversation i, writing row: the UPDATE and
\* its post_save signal, sent with created = False (no mail is involved)
SaveConversation(d, i, row) ==
    conversation_created([d EXCEPT !.conversations[i] = row], i, FALSE, "delivered")

\* post_save(Message): message_created, run by the request that saved message m;
\* loaded_at is last_message_at of the Conversation object that request holds.
WritesLastMessageAt(created, message_type, created_at, loaded_at) ==
    /\ created
    /\ message_type # "system"
    /\ (loaded_at = 0 \/ created_at > loaded_at)

message_created(d, m, created, loaded_at) ==
    LET msg == d.messages[m]
    IN  IF /\ WritesLastMessageAt(created, msg.message_type, msg.created_at, loaded_at)
           /\ msg.conversation \in ConvIds(d)
        THEN SaveConversation(d, msg.conversation,
                 [d.conversations[msg.conversation] EXCEPT
                     !.last_message_at = msg.created_at])
        ELSE d

\* Message.objects.create(...): INSERT with created_at = timezone.now()
InsertMessage(d, i, sender, message_type, content) ==
    [d EXCEPT
        !.messages = (d.seq.msg :>
            [conversation |-> i, sender |-> sender, message_type |-> message_type,
             content |-> content, is_read |-> FALSE, read_at |-> 0,
             is_flagged |-> FALSE, created_at |-> d.now]) @@ d.messages,
        !.seq = [d.seq EXCEPT !.msg = d.seq.msg + 1],
        !.now = d.now + 1]

\* Message.objects.create followed by its post_save signal
CreateMessage(d, i, sender, message_type, content) ==
    LET loaded_at == d.conversations[i].last_message_at
        d1 == InsertMessage(d, i, sender, message_type, content)
    IN  message_created(d1, d.seq.msg, TRUE, loaded_at)

\* ------------------------------------------------------------- querysets
\* ConversationViewSet.get_queryset: the caller's conversations, narrowed by the
\* ?status= parameter except for block, unblock, archive and unarchive
MatchesStatus(c, status_filter) ==
    CASE status_filter = "active" -> c.is_active /\ ~c.is_blocked
      [] status_filter = "blocked" -> c.is_blocked
      [] status_filter = "archived" -> ~c.is_active
      [] OTHER -> TRUE

ConversationQueryset(d, user, status_filter) ==
    {i \in ConvIds(d) :
        /\ IsParticipant(d.conversations[i], user)
        /\ MatchesStatus(d.conversations[i], status_filter)}

\* MessageViewSet.get_queryset: the messages of the caller's conversations
MessageQueryset(d, user) ==
    {m \in MsgIds(d) :
        /\ d.messages[m].conversation \in ConvIds(d)
        /\ IsParticipant(d.conversations[d.messages[m].conversation], user)}

\* Meta.ordering = ["-last_message_at", "-created_at"]; nulls_first is where the
\* database puts a NULL last_message_at in descending order
OrderKey(d, i, nulls_first) ==
    LET c == d.conversations[i]
    IN  <<IF c.last_message_at = 0
          THEN (IF nulls_first THEN d.now + 1 ELSE 0)
          ELSE c.last_message_at,
          c.created_at>>

ComesBefore(d, i, j, nulls_first) ==
    LET a == OrderKey(d, i, nulls_first)
        b == OrderKey(d, j, nulls_first)
    IN  a[1] > b[1] \/ (a[1] = b[1] /\ a[2] > b[2])

\* QuerySet.first() over the set S of conversation ids
First(d, S, nulls_first) ==
    CHOOSE i \in S : \A j \in S \ {i} : ~ComesBefore(d, j, i, nulls_first)

\* ------------------------------------------- ConversationCreateSerializer
InitialMessages == {<<>>} \cup {<<t>> : t \in Contents}

\* the block check of ConversationCreateSerializer.create
BlockedDetail(d, buyer, seller, nulls_first) ==
    LET blocked == {i \in PairConvs(d, buyer, seller) : d.conversations[i].is_blocked}
    IN  IF blocked = {} THEN "ok"
        ELSE IF d.conversations[First(d, blocked, nulls_first)].blocked_by = buyer
             THEN "you_blocked"
             ELSE "blocked_you"

SameTriple(d, buyer, seller, ad) ==
    {i \in ConvIds(d) :
        /\ d.conversations[i].buyer = buyer
        /\ d.conversations[i].seller = seller
        /\ d.conversations[i].ad = ad}

\* a table without the unique constraint refuses no INSERT
NoUniqueConstraint(d, buyer, seller, ad) == FALSE

\* unique_together = [["buyer", "seller", "ad"]]: the INSERT is refused
UniqueViolation(d, buyer, seller, ad) == SameTriple(d, buyer, seller, ad) # {}

\* INSERT of a conversation row (defaults is_active = True, is_blocked = False)
\* and its post_save signal
InsertConversation(d, buyer, seller, ad, tr) ==
    LET i == d.seq.conv
        d1 == [d EXCEPT
                !.conversations = (i :>
                    [buyer |-> buyer, seller |-> seller, ad |-> ad,
                     is_active |-> TRUE, is_blocked |-> FALSE,
                     blocked_by |-> NoUser, created_at |-> d.now,
                     last_message_at |-> 0]) @@ d.conversations,
                !.seq = [d.seq EXCEPT !.conv = i + 1],
                !.now = d.now + 1]
    IN  conversation_created(d1, i, TRUE, tr)

\* Conversation.objects.get_or_create(buyer, seller, ad): [db, id, created]
get_or_create(d, buyer, seller, ad, tr) ==
    IF SameTriple(d, buyer, seller, ad) # {}
    THEN [db |-> d, id |-> CHOOSE i \in SameTriple(d, buyer, seller, ad) : TRUE,
          created |-> FALSE]
    ELSE [db |-> InsertConversation(d, buyer, seller, ad, tr), id |-> d.seq.conv,
          created |-> TRUE]

\* a create-or-get that returns an archived conversation as it found it
CreateOrGetOp_without_reactivation(d, user, ad, initial_message, nulls_first, tr) ==
    LET buyer == user
        seller == AdOwner(ad)
        blocked == BlockedDetail(d, buyer, seller, nulls_first)
        g == get_or_create(d, buyer, seller, ad, tr)
        d3 == IF initial_message # <<>>
              THEN CreateMessage(g.db, g.id, buyer, "text", initial_message[1])
              ELSE g.db
    IN  IF ~AdApproved(ad) THEN Result(d, "create", 400, "ad_not_available", 0)
        ELSE IF initial_message = <<"">> THEN Result(d, "create", 400, "blank", 0)
        ELSE IF buyer = seller THEN Result(d, "create", 400, "self", 0)
        ELSE IF blocked # "ok" THEN Result(d, "create", 400, blocked, 0)
        ELSE Result(d3, "create", 201,
                    IF g.created THEN "created" ELSE "existing", g.id)

\* a create-or-get that lets the owner of a listing open a conversation on it
CreateOrGetOp_allowing_self(d, user, ad, initial_message, nulls_first, tr) ==
    LET buyer == user
        seller == AdOwner(ad)
        blocked == BlockedDetail(d, buyer, seller, nulls_first)
        g == get_or_create(d, buyer, seller, ad, tr)
        d2 == IF ~g.created /\ ~g.db.conversations[g.id].is_active
              THEN SaveConversation(g.db, g.id,
                       [g.db.conversations[g.id] EXCEPT !.is_active = TRUE])
              ELSE g.db
        d3 == IF initial_message # <<>>
              THEN CreateMessage(d2, g.id, buyer, "text", initial_message[1])
              ELSE d2
    IN  IF ~AdApproved(ad) THEN Result(d, "create", 400, "ad_not_available", 0)
        ELSE IF initial_message = <<"">> THEN Result(d, "create", 400, "blank", 0)
        ELSE IF blocked # "ok" THEN Result(d, "create", 400, blocked, 0)
        ELSE Result(d3, "create", 201,
                    IF g.created THEN "created" ELSE "existing", g.id)

\* ConversationCreateSerializer (validate_ad_id, create), run as one request
CreateOrGetOp(d, user, ad, initial_message, nulls_first, tr) ==
    LET buyer == user
        seller == AdOwner(ad)
        blocked == BlockedDetail(d, buyer, seller, nulls_first)
        g == get_or_create(d, buyer, seller, ad, tr)
        d2 == IF ~g.created /\ ~g.db.conversations[g.id].is_active
              THEN SaveConversation(g.db, g.id,
                       [g.db.conversations[g.id] EXCEPT !.is_active = TRUE])
              ELSE g.db
        d3 == IF initial_message # <<>>
              THEN CreateMessage(d2, g.id, buyer, "text", initial_message[1])
              ELSE d2
    IN  IF ~AdApproved(ad) THEN Result(d, "create", 400, "ad_not_available", 0)
        ELSE IF initial_message = <<"">> THEN Result(d, "create", 400, "blank", 0)
        ELSE IF buyer = seller THEN Result(d, "create", 400, "self", 0)
        ELSE IF blocked # "ok" THEN Result(d, "create", 400, blocked, 0)
        ELSE Result(d3, "create", 201,
                    IF g.created THEN "created" ELSE "existing", g.id)

\* ------------------------------------------------ MessageCreateSerializer
\* a validation that does not look at is_blocked
AppendErrorIgnoringBlock(d, i, message_type, content, image) ==
    IF i \notin ConvIds(d) THEN "conversation_invalid"
    ELSE IF content = "" THEN "content_required"
    ELSE IF message_type = "image" /\ ~image THEN "image_required"
    ELSE IF ~d.conversations[i].is_active THEN "inactive"
    ELSE "ok"

\* field validation, then MessageCreateSerializer.validate
AppendError(d, i, message_type, content, image) ==
    IF i \notin ConvIds(d) THEN "conversation_invalid"
    ELSE IF content = "" THEN "content_required"
    ELSE IF message_type = "image" /\ ~image THEN "image_required"
    ELSE IF ~d.conversations[i].is_active THEN "inactive"
    ELSE IF d.conversations[i].is_blocked THEN "blocked"
    ELSE "ok"

\* MessageViewSet.create: validate, save, notify the other participant
AppendOp(d, user, i, message_type, content, image, tr) ==
    LET err == AppendError(d, i, message_type, content, image)
        d1 == CreateMessage(d, i, user, message_type, content)
        recipient == get_other_user(d.conversations[i], user)
        d2 == create_notification(d1, recipient, "new_message", i, tr)
    IN  IF err # "ok" THEN Result(d, "append", 400, err, 0)
        ELSE Result(d2, "append", 201, "sent", d.seq.msg)

\* ---------------------------------------------------- ConversationViewSet
\* one UPDATE ... SET over the rows S
UpdateConversations(d, S, is_blocked, blocked_by) ==
    [d EXCEPT !.conversations = [i \in ConvIds(d) |->
        IF i \in S
        THEN [d.conversations[i] EXCEPT
                !.is_blocked = is_blocked, !.blocked_by = blocked_by]
        ELSE d.conversations[i]]]

\* a block that covers only the conversations in which the caller is the buyer
BlockTargetsAsBuyer(d, user, other_user) ==
    {i \in ConvIds(d) :
        d.conversations[i].buyer = user /\ d.conversations[i].seller = other_user}

\* the rows ConversationViewSet.block updates
BlockTargets(d, user, other_user) == PairConvs(d, user, other_user)

\* ConversationViewSet.block
BlockOp(d, user, i) ==
    LET c == d.conversations[i]
        other_user == get_other_user(c, user)
        blocked_conversations == BlockTargets(d, user, other_user)
    IN  IF i \notin ConversationQueryset(d, user, "all")
        THEN Result(d, "block", 404, "not_found", 0)
        ELSE IF ~IsParticipant(c, user)
        THEN Result(d, "block", 403, "not_participant", 0)
        ELSE Result(UpdateConversations(d, blocked_conversations, TRUE, user),
                    "block", 200, "blocked", Cardinality(blocked_conversations))

\* an unblock open to both participants
AnyoneMayUnblock(c, user) == TRUE

\* the permission check of ConversationViewSet.unblock
MayUnblock(c, user) == c.blocked_by = user

\* the rows ConversationViewSet.unblock updates
UnblockTargets(d, user, other_user) ==
    {j \in PairConvs(d, user, other_user) : d.conversations[j].blocked_by = user}

\* ConversationViewSet.unblock
UnblockOp(d, user, i) ==
    LET c == d.conversations[i]
        other_user == get_other_user(c, user)
        unblocked_conversations == UnblockTargets(d, user, other_user)
    IN  IF i \notin ConversationQueryset(d, user, "all")
        THEN Result(d, "unblock", 404, "not_found", 0)
        ELSE IF ~MayUnblock(c, user)
        THEN Result(d, "unblock", 403, "not_blocker", 0)
        ELSE Result(UpdateConversations(d, unblocked_conversations, FALSE, NoUser),
                    "unblock", 200, "unblocked",
                    Cardinality(unblocked_conversations))

\* a flag flip that also lifts the block of the conversation
SetActive_lifting_block(d, i, value) ==
    SaveConversation(d, i, [d.conversations[i] EXCEPT !.is_active = value,
                                                     !.is_blocked = FALSE,
                                                     !.blocked_by = NoUser])

\* conversation.is_active = value; conversation.save()
SetActive(d, i, value) ==
    SaveConversation(d, i, [d.conversations[i] EXCEPT !.is_active = value])

\* ConversationViewSet.archive
ArchiveOp(d, user, i) ==
    IF i \notin ConversationQueryset(d, user, "all")
    THEN Result(d, "archive", 404, "not_found", 0)
    ELSE IF ~IsParticipant(d.conversations[i], user)
    THEN Result(d, "archive", 403, "not_participant", 0)
    ELSE Result(SetActive(d, i, FALSE), "archive", 200, "archived", 0)

\* ConversationViewSet.unarchive
UnarchiveOp(d, user, i) ==
    IF i \notin ConversationQueryset(d, user, "all")
    THEN Result(d, "unarchive", 404, "not_found", 0)
    ELSE IF ~IsParticipant(d.conversations[i], user)
    THEN Result(d, "unarchive", 403, "not_participant", 0)
    ELSE Result(SetActive(d, i, TRUE), "unarchive", 200, "restored", 0)

\* ConversationViewSet.retrieve
RetrieveOp(d, user, i, status_filter) ==
    IF i \notin ConversationQueryset(d, user, status_filter)
    THEN Result(d, "retrieve", 404, "not_found", 0)
    ELSE Result(mark_as_read(d, i, user), "retrieve", 200, "detail", 0)

\* PUT/PATCH through ModelViewSet with ConversationSerializer: is_active and
\* is_blocked are its writable model fields ("keep": the field is not sent)
FieldValues == {"keep", "true", "false"}

Written(old, value) == IF value = "keep" THEN old ELSE value = "true"

UpdateConversationOp(d, user, i, status_filter, is_active, is_blocked) ==
    IF i \notin ConversationQueryset(d, user, status_filter)
    THEN Result(d, "update", 404, "not_found", 0)
    ELSE Result(SaveConversation(d, i,
                    [d.conversations[i] EXCEPT
                        !.is_active = Written(@, is_active),
                        !.is_blocked = Written(@, is_blocked)]),
                "update", 200, "updated", 0)

\* --------------------------------------------------------- MessageViewSet
\* MessageViewSet.mark_read: Message defines no mark_as_read (the method is
\* nested in the module-level function save of models.py), so the call raises
MarkReadOp(d, user, m) ==
    IF m \notin MessageQueryset(d, user)
    THEN Result(d, "mark_read", 404, "not_found", 0)
    ELSE IF d.messages[m].sender = user
    THEN Result(d, "mark_read", 400, "own_message", 0)
    ELSE Result(d, "mark_read", 500, "attribute_error", 0)

\* MessageViewSet.mark_all_read (i = 0: no conversation_id in the request)
MarkAllReadOp(d, user, i) ==
    IF i = 0 THEN Result(d, "mark_all_read", 400, "conversation_id_required", 0)
    ELSE IF i \notin ConvIds(d)
    THEN Result(d, "mark_all_read", 404, "not_found", 0)
    ELSE IF ~IsParticipant(d.conversations[i], user)
    THEN Result(d, "mark_all_read", 403, "not_participant", 0)
    ELSE Result(mark_as_read(d, i, user), "mark_all_read", 200, "marked",
                get_unread_count(d, i, user))

\* MessageViewSet.flag: message.is_flagged = True; message.save(), whose
\* post_save signal runs with created = False
FlagOp(d, user, m) ==
    IF m \notin MessageQueryset(d, user)
    THEN Result(d, "flag", 404, "not_found", 0)
    ELSE LET d1 == [d EXCEPT !.messages[m].is_flagged = TRUE]
             loaded_at == d.conversations[d.messages[m].conversation].last_message_at
         IN  Result(message_created(d1, m, FALSE, loaded_at),
                    "flag", 200, "flagged", 0)

\* PUT/PATCH through ModelViewSet with MessageSerializer: of its writable model
\* fields the request sends message_type, content and is_read ("keep": the
\* field is not sent); serializer.save() saves the row, and its post_save
\* signal runs with created = False
TypeValues == MessageTypes \cup {"keep"}
ContentValues == {"keep", "edited"}

UpdateMessageOp(d, user, m, message_type, content, is_read) ==
    IF m \notin MessageQueryset(d, user)
    THEN Result(d, "update_message", 404, "not_found", 0)
    ELSE LET row == [d.messages[m] EXCEPT
                        !.message_type = IF message_type = "keep" THEN @
                                         ELSE message_type,
                        !.content = IF content = "keep" THEN @ ELSE content,
                        !.is_read = Written(@, is_read)]
             d1 == [d EXCEPT !.messages[m] = row]
             loaded_at == d.conversations[row.conversation].last_message_at
         IN  Result(message_created(d1, m, FALSE, loaded_at),
                    "update_message", 200, "updated", 0)

\* DELETE through ModelViewSet: instance.delete()
DeleteMessageOp(d, user, m) ==
    IF m \notin MessageQueryset(d, user)
    THEN Result(d, "delete_message", 404, "not_found", 0)
    ELSE Result([d EXCEPT !.messages = [k \in MsgIds(d) \ {m} |-> d.messages[k]]],
                "delete_message", 204, "deleted", 0)

\* ------------------------------------- requests handled step by step
\* A request being handled is a record: pc is the next database statement it
\* runs, loaded the Conversation object it holds in memory, msg the message
\* it has inserted.
NoRow ==
    [buyer |-> NoUser, seller |-> NoUser, ad |-> "none", is_active |-> FALSE,
     is_blocked |-> FALSE, blocked_by |-> NoUser, created_at |-> 0,
     last_message_at |-> 0]

Request(kind, user, ad, im, i, ty) ==
    [kind |-> kind, pc |-> "start", user |-> user, ad |-> ad, im |-> im,
     ty |-> ty, conv |-> i, loaded |-> NoRow, msg |-> 0,
     integrity_error |-> FALSE, status |-> 0]

Finished(r, status) == [r EXCEPT !.pc = "done", !.status = status]

\* ConversationCreateSerializer.create, one database statement at a time:
\* start (validation and the block query), get and insert (get_or_create),
\* reactivate (conversation.save()), message (Message.objects.create) and
\* signal (the save of last_message_at in message_created)
CreateOrGetStep(d, r, nulls_first, tr) ==
    LET buyer == r.user
        seller == AdOwner(r.ad)
        rest == IF r.im # <<>> THEN "message" ELSE "done"
        found == SameTriple(d, buyer, seller, r.ad)
        i == CHOOSE j \in found : TRUE
        d1 == InsertConversation(d, buyer, seller, r.ad, tr)
        saved == [r.loaded EXCEPT !.is_active = TRUE]
    IN  CASE r.pc = "start" ->
                IF \/ ~AdApproved(r.ad)
                   \/ r.im = <<"">>
                   \/ buyer = seller
                   \/ BlockedDetail(d, buyer, seller, nulls_first) # "ok"
                THEN [db |-> d, req |-> Finished(r, 400)]
                ELSE [db |-> d, req |-> [r EXCEPT !.pc = "get"]]
          [] r.pc = "get" ->
                IF found = {}
                THEN [db |-> d, req |-> [r EXCEPT !.pc = "insert"]]
                ELSE [db |-> d,
                      req |-> [r EXCEPT
                          !.conv = i, !.loaded = d.conversations[i],
                          !.status = 201,
                          !.pc = IF d.conversations[i].is_active
                                 THEN rest ELSE "reactivate"]]
          [] r.pc = "insert" ->
                IF UniqueViolation(d, buyer, seller, r.ad)
                THEN [db |-> d,
                      req |-> [r EXCEPT !.pc = "get", !.integrity_error = TRUE]]
                ELSE [db |-> d1,
                      req |-> [r EXCEPT
                          !.conv = d.seq.conv,
                          !.loaded = d1.conversations[d.seq.conv],
                          !.status = 201, !.pc = rest]]
          [] r.pc = "reactivate" ->
                [db |-> SaveConversation(d, r.conv, saved),
                 req |-> [r EXCEPT !.loaded = saved, !.pc = rest]]
          [] r.pc = "message" ->
                [db |-> InsertMessage(d, r.conv, buyer, "text", r.im[1]),
                 req |-> [r EXCEPT !.msg = d.seq.msg, !.pc = "signal"]]
          [] OTHER ->
                [db |-> message_created(d, r.msg, TRUE, r.loaded.last_message_at),
                 req |-> Finished(r, 201)]

\* MessageViewSet.create, one database statement at a time: start (validation,
\* which loads the conversation), insert (Message.objects.create), signal (the
\* save of last_message_at in message_created) and notify
AppendStep(d, r, tr) ==
    CASE r.pc = "start" ->
            IF AppendError(d, r.conv, r.ty, "hi", TRUE) # "ok"
            THEN [db |-> d, req |-> Finished(r, 400)]
            ELSE [db |-> d,
                  req |-> [r EXCEPT !.loaded = d.conversations[r.conv],
                                    !.pc = "insert"]]
      [] r.pc = "insert" ->
            [db |-> InsertMessage(d, r.conv, r.user, r.ty, "hi"),
             req |-> [r EXCEPT !.msg = d.seq.msg, !.pc = "signal"]]
      [] r.pc = "signal" ->
            [db |-> message_created(d, r.msg, TRUE, r.loaded.last_message_at),
             req |-> [r EXCEPT !.pc = "notify"]]
      [] OTHER ->
            [db |-> create_notification(d, get_other_user(r.loaded, r.user),
                                        "new_message", r.conv, tr),
             req |-> Finished(r, 201)]

\* ConversationViewSet.retrieve, one database statement at a time: start
\* (get_object) and mark (the UPDATE of Conversation.mark_as_read)
RetrieveStep(d, r, status_filter) ==
    CASE r.pc = "start" ->
            IF r.conv \notin ConversationQueryset(d, r.user, status_filter)
            THEN [db |-> d, req |-> Finished(r, 404)]
            ELSE [db |-> d,
                  req |-> [r EXCEPT !.loaded = d.conversations[r.conv],
                                    !.pc = "mark"]]
      [] OTHER ->
            [db |-> mark_as_read(d, r.conv, r.user), req |-> Finished(r, 200)]

\* ------------------------------------------------------------------ runs
Init ==
    /\ conversations = <<>>
    /\ messages = <<>>
    /\ notifications = <<>>
    /\ now = 1
    /\ seq = [conv |-> 1, msg |-> 1, notif |-> 1]
    /\ email_on = TRUE
    /\ outbox = {}
    /\ standing = {}
    /\ inflight = EmptyBag

\* B: the conversations and messages a run may insert, how many of both
\* together, and whether it keeps the record `standing`
Run(convs, msgs, rows, track) ==
    [convs |-> convs, msgs |-> msgs, rows |-> rows, track |-> track]

Rows(convs, msgs, track) == Run(convs, msgs, convs + msgs, track)

WithinBounds(d, B) ==
    /\ d.seq.conv <= B.convs + 1
    /\ d.seq.msg <= B.msgs + 1
    /\ (d.seq.conv - 1) + (d.seq.msg - 1) <= B.rows

Store(d) ==
    /\ conversations' = d.conversations
    /\ messages' = d.messages
    /\ notifications' = d.notifications
    /\ now' = d.now
    /\ seq' = d.seq
    /\ email_on' = d.email_on
    /\ outbox' = d.outbox

\* A request of user u handled from start to end with no other request in
\* between. A request refused with a client error (4xx) changes nothing and is
\* no step: what the handlers refuse is stated over the handler operators.
\* blocks: the pairs <<u, b>> for which this request is u's block of b.
Commit(r, u, B, blocks) ==
    /\ r.resp.status \notin 400 .. 499
    /\ WithinBounds(r.db, B)
    /\ Store(r.db)
    /\ standing' = IF B.track
                   THEN {p \in standing : p[2] = u} \cup blocks
                   ELSE standing
    /\ UNCHANGED inflight

\* T: the outcomes the mail transport may have in this run;
\* IM: the initial messages sent in this run
CreateOrGet(u, B, T, IM) ==
    \E ad \in Ads, im \in IM, tr \in T :
        Commit(CreateOrGetOp(DB, u, ad, im, TRUE, tr), u, B, {})

SendMessage(u, B, T) ==
    \E i \in ConvIds(DB), ty \in MessageTypes, tr \in T :
        Commit(AppendOp(DB, u, i, ty, "hi", TRUE, tr), u, B, {})

Block(u, B) ==
    \E i \in ConvIds(DB) :
        Commit(BlockOp(DB, u, i), u, B,
               {<<u, get_other_user(conversations[i], u)>>})

Unblock(u, B) == \E i \in ConvIds(DB) : Commit(UnblockOp(DB, u, i), u, B, {})

Archive(u, B) == \E i \in ConvIds(DB) : Commit(ArchiveOp(DB, u, i), u, B, {})

Unarchive(u, B) == \E i \in ConvIds(DB) : Commit(UnarchiveOp(DB, u, i), u, B, {})

UpdateConversation(u, B) ==
    \E i \in ConvIds(DB), sf \in {"active", "all"}, a \in FieldValues,
       b \in FieldValues :
        Commit(UpdateConversationOp(DB, u, i, sf, a, b), u, B, {})

Retrieve(u, B) ==
    \E i \in ConvIds(DB), sf \in StatusFilters :
        Commit(RetrieveOp(DB, u, i, sf), u, B, {})

MarkRead(u, B) == \E m \in MsgIds(DB) : Commit(MarkReadOp(DB, u, m), u, B, {})

MarkAllRead(u, B) ==
    \E i \in ConvIds(DB) : Commit(MarkAllReadOp(DB, u, i), u, B, {})

Flag(u, B) == \E m \in MsgIds(DB) : Commit(FlagOp(DB, u, m), u, B, {})

UpdateMessage(u, B) ==
    \E m \in MsgIds(DB), ty \in TypeValues, co \in ContentValues,
       r \in FieldValues :
        Commit(UpdateMessageOp(DB, u, m, ty, co, r), u, B, {})

DeleteMessage(u, B) ==
    \E m \in MsgIds(DB) : Commit(DeleteMessageOp(DB, u, m), u, B, {})

\* a request is taken up and runs its first statement
Accept(s) ==
    /\ BagCardinality(inflight) < MaxInflight
    /\ s.req.pc # "done"
    /\ inflight' = inflight (+) SetToBag({s.req})
    /\ UNCHANGED <<dbvars, standing>>

\* the request r runs its next statement
Handle(r, s, B) ==
    /\ WithinBounds(s.db, B)
    /\ Store(s.db)
    /\ inflight' = (inflight (-) SetToBag({r}))
                       (+) (IF s.req.pc = "done" THEN EmptyBag
                            ELSE SetToBag({s.req}))
    /\ UNCHANGED standing

AcceptCreateOrGet(u, T, IM) ==
    \E ad \in Ads, im \in IM, tr \in T :
        Accept(CreateOrGetStep(DB, Request("create", u, ad, im, 0, "text"),
                               TRUE, tr))

\* TY: the message types sent in this run
AcceptAppendOfType(u, T, TY) ==
    \E i \in ConvIds(DB), ty \in TY, tr \in T :
        Accept(AppendStep(DB, Request("append", u, "none", <<>>, i, ty), tr))

AcceptAppend(u, T) == AcceptAppendOfType(u, T, MessageTypes)

StepCreateOrGet(B, T) ==
    \E r \in BagToSet(inflight), tr \in T :
        /\ r.kind = "create"
        /\ Handle(r, CreateOrGetStep(DB, r, TRUE, tr), B)

StepAppend(B, T) ==
    \E r \in BagToSet(inflight), tr \in T :
        /\ r.kind = "append"
        /\ Handle(r, AppendStep(DB, r, tr), B)

AcceptRetrieve(u) ==
    \E i \in ConvIds(DB), sf \in StatusFilters :
        Accept(RetrieveStep(DB, Request("retrieve", u, "none", <<>>, i, "text"), sf))

StepRetrieve(B) ==
    \E r \in BagToSet(inflight) :
        /\ r.kind = "retrieve"
        /\ Handle(r, RetrieveStep(DB, r, "all"), B)

Delivered == {"delivered"}

\* the conversation endpoints
ConversationRequest(u, B) ==
    \/ CreateOrGet(u, B, Delivered, {<<>>})
    \/ Block(u, B)
    \/ Unblock(u, B)
    \/ Archive(u, B)
    \/ Unarchive(u, B)
    \/ UpdateConversation(u, B)

\* the operations that append no message
FrameRequest(u, B) ==
    \/ Retrieve(u, B)
    \/ MarkRead(u, B)
    \/ MarkAllRead(u, B)
    \/ Flag(u, B)
    \/ Archive(u, B)
    \/ Unarchive(u, B)
    \/ Block(u, B)
    \/ Unblock(u, B)

\* sequences of successful sends
AppendRequest(u, B) ==
    \/ CreateOrGet(u, B, Delivered, InitialMessages)
    \/ SendMessage(u, B, Delivered)

\* requests arrive one at a time, each handled to its end; the mail transport works
Next == \E u \in Users : ConversationRequest(u, Rows(MaxConvs, 0, FALSE))

Spec == Init /\ [][Next]_vars

\* conversations are opened and messages sent, and in between run the
\* operations that append no message
FrameRun == Run(FrameMaxRows, FrameMaxRows, FrameMaxRows, FALSE)

FrameNext ==
    \E u \in Users :
        \/ AppendRequest(u, FrameRun)
        \/ FrameRequest(u, FrameRun)

FrameSpec == Init /\ [][FrameNext]_vars

AppendNext ==
    \E u \in Users : AppendRequest(u, Rows(AppendMaxConvs, AppendMaxMsgs, FALSE))

AppendSpec == Init /\ [][AppendNext]_vars

\* as Spec, with messages, keeping the record of who blocked whom and who has
\* made requests since
BlockedPartyRun == Rows(PartyMaxConvs, PartyMaxMsgs, TRUE)

BlockedPartyNext ==
    \E u \in Users :
        \/ ConversationRequest(u, BlockedPartyRun)
        \/ SendMessage(u, BlockedPartyRun, Delivered)

BlockedPartySpec == Init /\ [][BlockedPartyNext]_vars

\* create-or-get and send requests handled concurrently, their database
\* statements interleaved; every message comes from a send
ConcRun == Rows(ConcMaxConvs, ConcMaxMsgs, FALSE)

ConcNext ==
    \/ \E u \in Users : AcceptCreateOrGet(u, Delivered, {<<>>})
    \/ \E u \in Users : AcceptAppend(u, Delivered)
    \/ StepCreateOrGet(ConcRun, Delivered)
    \/ StepAppend(ConcRun, Delivered)

ConcSpec == Init /\ [][ConcNext]_vars

\* conversations are opened and messages sent, and in between conversations
\* are archived, unarchived, blocked and unblocked
NotifyRun == Run(NotifyMaxRows, NotifyMaxRows, NotifyMaxRows, FALSE)

NotifyNext ==
    \E u \in Users :
        \/ AppendRequest(u, NotifyRun)
        \/ Archive(u, NotifyRun)
        \/ Unarchive(u, NotifyRun)
        \/ Block(u, NotifyRun)
        \/ Unblock(u, NotifyRun)

NotifySpec == Init /\ [][NotifyNext]_vars

\* messages are sent, and changed and deleted through the message endpoint
MessageNext ==
    \E u \in Users :
        \/ AppendRequest(u, Rows(MessageMaxConvs, MessageMaxMsgs, FALSE))
        \/ UpdateMessage(u, Rows(MessageMaxConvs, MessageMaxMsgs, FALSE))
        \/ DeleteMessage(u, Rows(MessageMaxConvs, MessageMaxMsgs, FALSE))

MessageSpec == Init /\ [][MessageNext]_vars

\* conversations are opened; sends of text messages and retrieves are handled
\* concurrently, their database statements interleaved
ReadRun == Run(ReadMaxConvs, ReadMaxMsgs, ReadMaxRows, FALSE)

ReadNext ==
    \/ \E u \in Users : CreateOrGet(u, ReadRun, Delivered, {<<>>})
    \/ \E u \in Users : AcceptAppendOfType(u, Delivered, {"text"})
    \/ \E u \in Users : AcceptRetrieve(u)
    \/ StepAppend(ReadRun, Delivered)
    \/ StepRetrieve(ReadRun)

ReadSpec == Init /\ [][ReadNext]_vars

\* create-or-get requests handled concurrently
CreateNext ==
    \/ \E u \in Users : AcceptCreateOrGet(u, Delivered, InitialMessages)
    \/ StepCreateOrGet(Run(CreateMaxRows, CreateMaxRows, CreateMaxRows, FALSE),
                       Delivered)

CreateSpec == Init /\ [][CreateNext]_vars

\* ------------------------------------------------------------ properties
Max(S) == CHOOSE x \in S : \A y \in S : y <= x

\* the conversations whose two participants are a and b, in either role order
OfPair(a, b) ==
    {j \in ConvIds(DB) : {conversations[j].buyer, conversations[j].seller} = {a, b}}

\* C1: at most one conversation exists per (buyer, seller, listing), also while
\* create-or-get requests interleave; a create-or-get for a triple that already
\* has its conversation inserts nothing and returns that conversation's id,
\* whether it runs alone or meets the row at its get or at its insert.
OneConversationPerTriple ==
    /\ \A i \in ConvIds(DB), j \in ConvIds(DB) :
            /\ conversations[i].buyer = conversations[j].buyer
            /\ conversations[i].seller = conversations[j].seller
            /\ conversations[i].ad = conversations[j].ad
            => i = j
    /\ \A u \in Users, ad \in Ads :
        LET existing == {i \in ConvIds(DB) :
                            /\ conversations[i].buyer = u
                            /\ conversations[i].seller = AdOwner(ad)
                            /\ conversations[i].ad = ad}
            r == CreateOrGetOp(DB, u, ad, <<>>, TRUE, "delivered")
        IN  existing # {} /\ r.resp.status = 201
            => r.resp.val \in existing /\ ConvIds(r.db) = ConvIds(DB)
    /\ \A q \in BagToSet(inflight) :
        LET existing == {i \in ConvIds(DB) :
                            /\ conversations[i].buyer = q.user
                            /\ conversations[i].seller = AdOwner(q.ad)
                            /\ conversations[i].ad = q.ad}
            s == CreateOrGetStep(DB, q, TRUE, "delivered")
        IN  q.kind = "create" /\ existing # {}
            => /\ ConvIds(s.db) = ConvIds(DB)
               /\ q.pc = "get" => s.req.conv \in existing
               /\ q.pc = "insert" => s.req.pc = "get"

\* C1 witness: of two interleaved requests for one triple, one has inserted the
\* row and the other's INSERT has been refused.
InsertRefusedForExistingTriple ==
    \E q \in BagToSet(inflight) :
        /\ q.kind = "create"
        /\ q.integrity_error
        /\ q.pc = "get"
        /\ Cardinality(SameTriple(DB, q.user, AdOwner(q.ad), q.ad)) = 1

\* C2: while a blocked b and only b has made requests since, every conversation
\* of the two stays blocked, and b can neither open a conversation with a nor
\* send a message into one of theirs.
BlockedPartyCannotRestoreContact ==
    \A p \in standing :
        LET a == p[1]
            b == p[2]
        IN  /\ \A i \in OfPair(a, b) : conversations[i].is_blocked
            /\ \A ad \in Ads :
                AdOwner(ad) = a =>
                    CreateOrGetOp(DB, b, ad, <<>>, TRUE, "delivered").resp.status = 400
            /\ \A i \in OfPair(a, b), ty \in MessageTypes :
                AppendOp(DB, b, i, ty, "hi", TRUE, "delivered").resp.status = 400

\* C3: Block by a participant of conversation i marks every conversation of the
\* pair {caller, other participant}, in either role order and for any listing,
\* is_blocked with blocked_by = caller, changes nothing else, and reports the
\* number of conversations of the pair.
BlockCoversThePair ==
    \A u \in Users, i \in ConvIds(DB) :
        LET c == conversations[i]
            other == IF c.buyer = u THEN c.seller ELSE c.buyer
            pair == OfPair(u, other)
            r == BlockOp(DB, u, i)
        IN  u \in {c.buyer, c.seller} =>
                /\ r.resp.status = 200
                /\ r.resp.val = Cardinality(pair)
                /\ r.db = [DB EXCEPT !.conversations = [j \in ConvIds(DB) |->
                        IF j \in pair
                        THEN [conversations[j] EXCEPT
                                !.is_blocked = TRUE, !.blocked_by = u]
                        ELSE conversations[j]]]

\* C3 witness: two conversations of one pair, in opposite role orders, both
\* blocked by the same participant.
PairBlockedInBothRoleOrders ==
    \E i \in ConvIds(DB), j \in ConvIds(DB) :
        /\ conversations[i].buyer = conversations[j].seller
        /\ conversations[i].seller = conversations[j].buyer
        /\ conversations[i].is_blocked /\ conversations[j].is_blocked
        /\ conversations[i].blocked_by = conversations[i].buyer
        /\ conversations[j].blocked_by = conversations[i].buyer
        /\ BlockOp(DB, conversations[i].buyer, i).resp.val = 2

BlockedCreateNamesTheBlocker ==
    \A u \in Users, ad \in Ads, im \in {<<>>, <<"hi">>}, nulls_first \in BOOLEAN :
        LET owner == AdOwner(ad)
            blocked == {i \in OfPair(u, owner) : conversations[i].is_blocked}
            r == CreateOrGetOp(DB, u, ad, im, nulls_first, "delivered")
        IN  AdApproved(ad) /\ u # owner /\ blocked # {} =>
                /\ r.resp.status = 400
                /\ r.db = DB
                /\ r.resp.detail = "you_blocked"
                    <=> \E i \in blocked : conversations[i].blocked_by = u
                /\ r.resp.detail = "blocked_you"
                    <=> \E i \in blocked : conversations[i].blocked_by = owner

\* C6: with sends into one conversation interleaved statement by statement,
\* no step lowers a conversation's last_message_at.
LastMessageAtNeverDecreases ==
    [][\A i \in ConvIds(DB) :
          conversations'[i].last_message_at >= conversations[i].last_message_at]_vars

\* C7: after any sequence of successful sends, of any message type, a
\* conversation's last_message_at is the newest created_at of its messages.
LastMessageAtIsNewestMessage ==
    \A i \in ConvIds(DB) :
        MessagesOf(DB, i) # {} =>
            conversations[i].last_message_at =
                Max({messages[m].created_at : m \in MessagesOf(DB, i)})

\* C8: Retrieve, Mark-read, Mark-all-read, Flag, Archive, Unarchive, Block and
\* Unblock, from any state that sequences of requests reach, leave the
\* last_message_at of every conversation as it was.
OnlyAppendMovesLastMessageAt ==
    LET Kept(r) ==
            /\ ConvIds(r.db) = ConvIds(DB)
            /\ \A j \in ConvIds(DB) :
                r.db.conversations[j].last_message_at =
                    conversations[j].last_message_at
    IN  /\ \A u \in Users, i \in ConvIds(DB) :
            /\ \A sf \in StatusFilters : Kept(RetrieveOp(DB, u, i, sf))
            /\ Kept(MarkAllReadOp(DB, u, i))
            /\ Kept(ArchiveOp(DB, u, i))
            /\ Kept(UnarchiveOp(DB, u, i))
            /\ Kept(BlockOp(DB, u, i))
            /\ Kept(UnblockOp(DB, u, i))
        /\ \A u \in Users, m \in MsgIds(DB) :
            /\ Kept(MarkReadOp(DB, u, m))
            /\ Kept(FlagOp(DB, u, m))

\* C8 witness: a message that has been read and flagged, in a conversation
\* that has been archived and blocked, whose last_message_at is still the
\* message's created_at.
ReadFlaggedArchivedBlocked ==
    \E m \in MsgIds(DB) :
        LET c == conversations[messages[m].conversation]
        IN  /\ messages[m].is_read
            /\ messages[m].is_flagged
            /\ ~c.is_active
            /\ c.is_blocked
            /\ c.last_message_at = messages[m].created_at

\* C9: the sender of every message is the buyer or the seller of the message's
\* conversation.
SenderIsParticipant ==
    \A m \in MsgIds(DB) :
        messages[m].sender \in {conversations[messages[m].conversation].buyer,
                                conversations[messages[m].conversation].seller}

\* C10: a send into an archived or blocked conversation is refused with an
\* error: no message is inserted, no last_message_at changes and no
\* notification is created.
NoAppendIntoClosedConversation ==
    \A u \in Users, i \in ConvIds(DB), ty \in MessageTypes, tr \in Transport :
        LET r == AppendOp(DB, u, i, ty, "hi", TRUE, tr)
        IN  ~conversations[i].is_active \/ conversations[i].is_blocked =>
                /\ r.resp.status = 400
                /\ r.db.messages = messages
                /\ r.db.notifications = notifications
                /\ r.db.conversations = conversations
                /\ r.db = DB

\* C10 witness: a conversation that holds a message and is blocked but not
\* archived, in which a participant's send is refused as blocked.
SendRefusedInBlockedConversation ==
    \E i \in ConvIds(DB) :
        /\ conversations[i].last_message_at # 0
        /\ conversations[i].is_blocked
        /\ conversations[i].is_active
        /\ AppendOp(DB, conversations[i].buyer, i, "text", "hi", TRUE,
                    "delivered").resp.detail = "blocked"

\* C11: a send of type system never creates a notification.
SystemMessageNotifiesNobody ==
    \A u \in Users, i \in ConvIds(DB), tr \in Transport :
        AppendOp(DB, u, i, "system", "hi", TRUE, tr).db.notifications
            = notifications

OfType(d, notification_type) ==
    {n \in NotifIds(d) : d.notifications[n].notification_type = notification_type}

SameNewMessageNotifications(d) ==
    OfType(d, "new_message") = OfType(DB, "new_message")

\* the new_conversation notifications of conversation i
Announcements(d, i) ==
    {n \in OfType(d, "new_conversation") : d.notifications[n].conversation = i}

AnnouncedOnce(d) ==
    \A i \in ConvIds(d) :
        /\ Cardinality(Announcements(d, i)) = 1
        /\ \A n \in Announcements(d, i) :
              d.notifications[n].recipient = d.conversations[i].seller

\* d announces every conversation once and the conversations of the state as
\* the state does (first disjunct: the same notifications, conversations and
\* sellers as the state, of which AnnouncedOnce is required)
AnnouncedAsBefore(d) ==
    \/ /\ d.notifications = notifications
       /\ ConvIds(d) = ConvIds(DB)
       /\ \A i \in ConvIds(DB) : d.conversations[i].seller = conversations[i].seller
       /\ AnnouncedOnce(DB)
    \/ /\ AnnouncedOnce(d)
       /\ \A i \in ConvIds(DB) : Announcements(d, i) = Announcements(DB, i)

\* the database d, returned by an operation run in the state, has kept the
\* state's notifications of type what
Kept(what, d) ==
    IF what = "new_message" THEN SameNewMessageNotifications(d)
    ELSE AnnouncedAsBefore(d)

\* every operation other than a send, run in state d, keeps the notifications
\* of type what
AfterEveryOtherOperation(d, what) ==
    /\ \A u \in Users, ad \in Ads, im \in InitialMessages, tr \in Transport :
          Kept(what, CreateOrGetOp(d, u, ad, im, TRUE, tr).db)
    /\ \A u \in Users, i \in ConvIds(d) :
          /\ Kept(what, BlockOp(d, u, i).db)
          /\ Kept(what, UnblockOp(d, u, i).db)
          /\ Kept(what, ArchiveOp(d, u, i).db)
          /\ Kept(what, UnarchiveOp(d, u, i).db)
          /\ Kept(what, MarkAllReadOp(d, u, i).db)
          /\ \A sf \in StatusFilters : Kept(what, RetrieveOp(d, u, i, sf).db)
          /\ \A sf \in {"active", "all"}, a \in FieldValues, b \in FieldValues :
                Kept(what, UpdateConversationOp(d, u, i, sf, a, b).db)
    /\ \A u \in Users : Kept(what, MarkAllReadOp(d, u, 0).db)
    /\ \A u \in Users, m \in MsgIds(d) :
          /\ Kept(what, MarkReadOp(d, u, m).db)
          /\ Kept(what, FlagOp(d, u, m).db)
          /\ Kept(what, DeleteMessageOp(d, u, m).db)
          /\ \A ty \in TypeValues, co \in ContentValues, r \in FieldValues :
                Kept(what, UpdateMessageOp(d, u, m, ty, co, r).db)

\* every send, run in state d, keeps the notifications of type what
AfterEveryAppend(d, what) ==
    \A u \in Users, i \in ConvIds(d), ty \in MessageTypes, co \in Contents,
       tr \in Transport : Kept(what, AppendOp(d, u, i, ty, co, TRUE, tr).db)

\* C12: a successful send of a text or image message adds exactly one
\* notification, of type new_message, for the message's conversation; its
\* recipient is never the sender, and is the other participant when the sender
\* is the buyer or the seller. Whatever the mail transport does and whether or
\* not mail is switched on. No other operation adds a new_message notification.
AppendNotifiesTheOtherParticipant ==
    /\ \A u \in Users, i \in ConvIds(DB), ty \in MessageTypes \ {"system"},
          tr \in Transport, e \in BOOLEAN :
        LET r == AppendOp([DB EXCEPT !.email_on = e], u, i, ty, "hi", TRUE, tr)
            c == conversations[i]
            added == NotifIds(r.db) \ NotifIds(DB)
        IN  r.resp.status = 201 =>
              /\ Cardinality(added) = 1
              /\ \A n \in NotifIds(DB) : r.db.notifications[n] = notifications[n]
              /\ \A n \in added :
                    /\ r.db.notifications[n].notification_type = "new_message"
                    /\ r.db.notifications[n].conversation = i
                    /\ r.db.notifications[n].recipient # u
                    /\ u = c.buyer => r.db.notifications[n].recipient = c.seller
                    /\ u = c.seller => r.db.notifications[n].recipient = c.buyer
    /\ AfterEveryOtherOperation(DB, "new_message")

\* C12 witness: one message, a text sent by the buyer, and one new_message
\* notification, addressed to the seller of the message's conversation.
SellerNotifiedOfBuyersMessage ==
    /\ Cardinality(MsgIds(DB)) = 1
    /\ Cardinality(OfType(DB, "new_message")) = 1
    /\ \E m \in MsgIds(DB), n \in OfType(DB, "new_message") :
        /\ messages[m].message_type = "text"
        /\ messages[m].sender = conversations[messages[m].conversation].buyer
        /\ notifications[n].conversation = messages[m].conversation
        /\ notifications[n].recipient = conversations[messages[m].conversation].seller

\* C13: every conversation has exactly one new_conversation notification,
\* addressed to its seller. A create-or-get that creates a conversation adds
\* exactly one, for the conversation it created; a create-or-get that returns an
\* existing conversation, reactivated or not, adds none, and neither does any
\* other operation, whether or not it saves the conversation.
NewConversationNotifiedOncePerCreation ==
    /\ AnnouncedOnce(DB)
    /\ \A u \in Users, ad \in Ads, im \in InitialMessages, tr \in Transport :
        LET r == CreateOrGetOp(DB, u, ad, im, TRUE, tr)
            added == OfType(r.db, "new_conversation") \ OfType(DB, "new_conversation")
        IN  /\ r.resp.detail = "created" =>
                /\ r.resp.val \notin ConvIds(DB)
                /\ Cardinality(added) = 1
                /\ \A n \in added :
                      /\ r.db.notifications[n].conversation = r.resp.val
                      /\ r.db.notifications[n].recipient = AdOwner(ad)
            /\ r.resp.detail # "created" => added = {}
    /\ AfterEveryOtherOperation(DB, "new_conversation")
    /\ AfterEveryAppend(DB, "new_conversation")

\* C13 witness: an archived conversation that holds a message, which a
\* create-or-get of its buyer would reactivate, with its one new_conversation
\* notification.
ArchivedConversationAnnouncedOnce ==
    \E i \in ConvIds(DB), ad \in Ads :
        /\ ~conversations[i].is_active
        /\ conversations[i].last_message_at # 0
        /\ conversations[i].ad = ad
        /\ LET r == CreateOrGetOp(DB, conversations[i].buyer, ad, <<>>, TRUE,
                                  "delivered")
           IN  /\ r.resp.detail = "existing"
               /\ r.resp.val = i
               /\ r.db.conversations[i].is_active
        /\ Cardinality(Announcements(DB, i)) = 1

\* C14: every successful send, of any type and by any caller, adds exactly one
\* notification row. If its recipient has message notifications off, or mail is
\* switched off, EmailService.send_email is not called; if both are on, it is
\* called exactly once, for that notification and to its recipient, who is not
\* the sender and is the buyer or the seller of the conversation.
SendRespectsPreferenceAndToggle ==
    \A u \in Users, i \in ConvIds(DB), ty \in MessageTypes, tr \in Transport,
       e \in BOOLEAN :
        LET r == AppendOp([DB EXCEPT !.email_on = e], u, i, ty, "hi", TRUE, tr)
            added == NotifIds(r.db) \ NotifIds(DB)
            calls == r.db.outbox \ outbox
        IN  r.resp.status = 201 =>
              /\ Cardinality(added) = 1
              /\ \A n \in added :
                   LET to == r.db.notifications[n].recipient
                   IN  /\ ~EmailMessageNotifications(to) \/ ~e => calls = {}
                       /\ EmailMessageNotifications(to) /\ e =>
                            /\ Cardinality(calls) = 1
                            /\ \A c \in calls :
                                  /\ c.notification = n
                                  /\ c.to = to
                                  /\ c.to # u
                                  /\ c.to \in {conversations[i].buyer,
                                               conversations[i].seller}

\* C14 witness: a message whose notification went to a recipient with message
\* notifications on, with its one call of send_email; the answer of that
\* recipient would notify the first sender, who has them off, with no call; and
\* with mail switched off the first sender's next message would notify with no
\* call either.
MailedOnceAndNotMailed ==
    \E m \in MsgIds(DB), n \in OfType(DB, "new_message") :
        LET i == messages[m].conversation
            sender == messages[m].sender
            to == notifications[n].recipient
            answer == AppendOp(DB, to, i, "text", "hi", TRUE, "delivered")
            off == AppendOp([DB EXCEPT !.email_on = FALSE], sender, i, "text",
                            "hi", TRUE, "delivered")
        IN  /\ notifications[n].conversation = i
            /\ to = get_other_user(conversations[i], sender)
            /\ EmailMessageNotifications(to)
            /\ ~EmailMessageNotifications(sender)
            /\ Cardinality({c \in outbox : c.notification = n /\ c.to = to}) = 1
            /\ answer.resp.status = 201
            /\ answer.db.outbox = outbox
            /\ off.resp.status = 201
            /\ off.db.outbox = outbox
            /\ Cardinality(NotifIds(off.db)) = Cardinality(NotifIds(DB)) + 1

\* C15: when the mail transport fails while a send or a conversation creation
\* is being notified, the request still succeeds, the message or conversation
\* and the notification are stored, and the notification's email_sent is false.
FailedTransportLeavesEmailSentFalse ==
    \A u \in Users, tr \in Transport \ {"delivered"} :
        /\ \A i \in ConvIds(DB), ty \in MessageTypes :
            LET r == AppendOp(DB, u, i, ty, "hi", TRUE, tr)
            IN  AppendError(DB, i, ty, "hi", TRUE) = "ok" =>
                  /\ r.resp.status = 201
                  /\ r.resp.val \in MsgIds(r.db)
                  /\ NotifIds(r.db) # NotifIds(DB)
                  /\ \A n \in NotifIds(r.db) \ NotifIds(DB) :
                        ~r.db.notifications[n].email_sent
        /\ \A ad \in Ads :
            LET r == CreateOrGetOp(DB, u, ad, <<>>, TRUE, tr)
            IN  r.resp.detail = "created" =>
                  /\ r.resp.status = 201
                  /\ r.resp.val \in ConvIds(r.db)
                  /\ NotifIds(r.db) # NotifIds(DB)
                  /\ \A n \in NotifIds(r.db) \ NotifIds(DB) :
                        ~r.db.notifications[n].email_sent

\* the step in which the retrieve request r runs its marking UPDATE
MarkingStep(r) ==
    /\ r \in BagToSet(inflight)
    /\ r.kind = "retrieve"
    /\ r.pc = "mark"
    /\ inflight' = inflight (-) SetToBag({r})

\* C16: the marking step of a retrieve of conversation C by caller sets is_read
\* and read_at on exactly the messages that are in C at that moment, were not
\* sent by caller and are unread, so that caller's unread count of C is then 0;
\* it leaves caller's own messages, the messages already read (read_at
\* included) and the messages of other conversations as they are. No other
\* step of a retrieve or of a send changes is_read or read_at of a message, and
\* a message inserted by a send is unread. Marking twice equals marking once.
RetrieveMarksWhatIsPersisted ==
    [][/\ \A r \in BagToSet(inflight) :
            MarkingStep(r) =>
                /\ DOMAIN messages' = DOMAIN messages
                /\ \A m \in MsgIds(DB) :
                      messages'[m] =
                          IF /\ messages[m].conversation = r.conv
                             /\ messages[m].sender # r.user
                             /\ ~messages[m].is_read
                          THEN [messages[m] EXCEPT !.is_read = TRUE, !.read_at = now]
                          ELSE messages[m]
                /\ \A m \in MsgIds(DB) : messages'[m].is_read => messages'[m].read_at # 0
                /\ get_unread_count(DB', r.conv, r.user) = 0
                /\ mark_as_read(DB', r.conv, r.user) = DB'
       /\ (~ \E r \in BagToSet(inflight) : MarkingStep(r)) =>
                /\ \A m \in MsgIds(DB) :
                      /\ m \in DOMAIN messages'
                      /\ messages'[m] = messages[m]
                /\ \A m \in DOMAIN messages' \ MsgIds(DB) :
                      /\ ~messages'[m].is_read
                      /\ messages'[m].read_at = 0
      ]_vars

\* C16 witness: a conversation with a message that its reader has marked read
\* and a later message of the same sender, inserted after that marking by a
\* send still being handled, which is unread while the reader's next retrieve
\* is about to mark.
ReadThenAppendedUnread ==
    \E m1 \in MsgIds(DB), m2 \in MsgIds(DB), a \in BagToSet(inflight),
       r \in BagToSet(inflight) :
        /\ messages[m1].conversation = messages[m2].conversation
        /\ messages[m1].sender = messages[m2].sender
        /\ messages[m1].is_read
        /\ ~messages[m2].is_read
        /\ messages[m1].read_at # 0
        /\ messages[m2].created_at > messages[m1].read_at
        /\ a.kind = "append" /\ a.msg = m2
        /\ r.kind = "retrieve" /\ r.pc = "mark"
        /\ r.conv = messages[m2].conversation
        /\ r.user = get_other_user(conversations[r.conv], messages[m2].sender)
        /\ get_unread_count(DB, r.conv, r.user) = 1

\* C17: mark-read of a message by the participant of its conversation who did
\* not send it succeeds and leaves the message read with read_at set; a second
\* mark-read succeeds too and changes nothing.
MarkReadSucceedsAndIsIdempotent ==
    \A m \in MsgIds(DB), u \in Users :
        LET c == conversations[messages[m].conversation]
            first == MarkReadOp(DB, u, m)
            second == MarkReadOp(first.db, u, m)
        IN  IsParticipant(c, u) /\ messages[m].sender # u =>
              /\ first.resp.status = 200
              /\ first.db.messages[m].is_read
              /\ first.db.messages[m].read_at # 0
              /\ second.resp.status = 200
              /\ second.db = first.db

\* C18: mark-read of a message by its sender is refused with an error (400 when
\* the sender can see the message, 404 otherwise) and changes nothing; and
\* neither mark-all-read nor retrieve, called by the sender of a message on any
\* conversation, changes that message.
SenderCannotMarkOwnMessageRead ==
    \A m \in MsgIds(DB) :
        LET u == messages[m].sender
            r == MarkReadOp(DB, u, m)
        IN  /\ r.resp.status \in {400, 404}
            /\ m \in MessageQueryset(DB, u) =>
                  r.resp.status = 400 /\ r.resp.detail = "own_message"
            /\ r.db = DB
            /\ \A i \in ConvIds(DB) \cup {0} :
                  MarkAllReadOp(DB, u, i).db.messages[m] = messages[m]
            /\ \A i \in ConvIds(DB), sf \in StatusFilters :
                  RetrieveOp(DB, u, i, sf).db.messages[m] = messages[m]

\* C18 witness: an unread message whose sender, a participant, is refused
\* mark-read, and whose conversation the sender retrieves and marks all read
\* with success while the message stays unread.
OwnUnreadMessageStaysUnread ==
    \E m \in MsgIds(DB) :
        LET u == messages[m].sender
            i == messages[m].conversation
        IN  /\ ~messages[m].is_read
            /\ IsParticipant(conversations[i], u)
            /\ MarkReadOp(DB, u, m).resp.detail = "own_message"
            /\ RetrieveOp(DB, u, i, "active").resp.status = 200
            /\ ~RetrieveOp(DB, u, i, "active").db.messages[m].is_read
            /\ MarkAllReadOp(DB, u, i).resp.status = 200
            /\ ~MarkAllReadOp(DB, u, i).db.messages[m].is_read

\* C19: the message log is append-only: no step removes a message, and no step
\* changes the conversation, sender, type, content or created_at of a message.
MessageLogIsAppendOnly ==
    [][\A m \in MsgIds(DB) :
          /\ m \in DOMAIN messages'
          /\ messages'[m].conversation = messages[m].conversation
          /\ messages'[m].sender = messages[m].sender
          /\ messages'[m].message_type = messages[m].message_type
          /\ messages'[m].content = messages[m].content
          /\ messages'[m].created_at = messages[m].created_at
      ]_vars

\* the state, and the states one PUT/PATCH of a conversation away from it
\* (?status=all: the request reaches every conversation of its caller)
PatchedStates ==
    {DB} \cup {UpdateConversationOp(DB, u, i, "all", a, b).db :
                u \in Users, i \in ConvIds(DB),
                a \in FieldValues, b \in FieldValues}

\* C20: a create-or-get by the buyer of an archived conversation, for its
\* listing, that the block check does not refuse, answers 201 with that
\* conversation and inserts none; the conversation is then active, with its
\* is_blocked, blocked_by and other fields except last_message_at as before,
\* and every message stored before is still there, unchanged.
ReactivationKeepsBlockAndMessages ==
    \A d \in PatchedStates, im \in InitialMessages \ {<<"">>}, nf \in BOOLEAN,
       tr \in Transport :
        \A i \in ConvIds(d) :
            LET c == d.conversations[i]
                r == CreateOrGetOp(d, c.buyer, c.ad, im, nf, tr)
            IN  ~c.is_active /\ BlockedDetail(d, c.buyer, c.seller, nf) = "ok" =>
                  /\ r.resp.status = 201
                  /\ r.resp.detail = "existing"
                  /\ r.resp.val = i
                  /\ ConvIds(r.db) = ConvIds(d)
                  /\ r.db.conversations[i].is_active
                  /\ r.db.conversations[i].is_blocked = c.is_blocked
                  /\ r.db.conversations[i].blocked_by = c.blocked_by
                  /\ [r.db.conversations[i] EXCEPT !.last_message_at = 0]
                        = [c EXCEPT !.is_active = TRUE, !.last_message_at = 0]
                  /\ \A j \in ConvIds(d) \ {i} :
                        r.db.conversations[j] = d.conversations[j]
                  /\ \A m \in MsgIds(d) :
                        /\ m \in MsgIds(r.db)
                        /\ r.db.messages[m] = d.messages[m]

\* C20 witness: an archived, unblocked conversation that holds a message, for
\* which its buyer's create-or-get with an initial message answers with the
\* same conversation, active, the old message kept and the new one added.
ArchivedConversationReactivated ==
    \E i \in ConvIds(DB), m \in MsgIds(DB) :
        LET c == conversations[i]
            r == CreateOrGetOp(DB, c.buyer, c.ad, <<"hi">>, TRUE, "delivered")
        IN  /\ ~c.is_active
            /\ ~c.is_blocked
            /\ messages[m].conversation = i
            /\ r.resp.detail = "existing"
            /\ r.resp.val = i
            /\ r.db.conversations[i].is_active
            /\ r.db.messages[m] = messages[m]
            /\ MsgIds(r.db) = MsgIds(DB) \cup {seq.msg}

\* C21: archive and unarchive by the buyer or the seller answer 200 and change
\* is_active of that conversation (to false, respectively true) and nothing
\* else: no other field of it, no other conversation, no message, no
\* notification, no mail. Called by anyone else they are refused and return
\* the database as it was.
ArchiveFlipsOnlyIsActive ==
    \A u \in Users, i \in ConvIds(DB) :
        LET a == ArchiveOp(DB, u, i)
            r == UnarchiveOp(DB, u, i)
        IN  IF IsParticipant(conversations[i], u)
            THEN /\ a.resp.status = 200
                 /\ a.db = [DB EXCEPT !.conversations[i].is_active = FALSE]
                 /\ r.resp.status = 200
                 /\ r.db = [DB EXCEPT !.conversations[i].is_active = TRUE]
            ELSE /\ a.resp.status \in {403, 404}
                 /\ a.db = DB
                 /\ r.resp.status \in {403, 404}
                 /\ r.db = DB

\* C21 witness: a conversation that holds a message and was archived while
\* blocked: it is still blocked by the same user, and its unarchive by a
\* participant would keep the block.
ArchivedWhileBlocked ==
    \E i \in ConvIds(DB), u \in Users :
        /\ ~conversations[i].is_active
        /\ conversations[i].is_blocked
        /\ conversations[i].blocked_by = u
        /\ conversations[i].last_message_at # 0
        /\ UnarchiveOp(DB, u, i).resp.status = 200
        /\ UnarchiveOp(DB, u, i).db.conversations[i].blocked_by = u
        /\ \E v \in Users : ArchiveOp(DB, v, i).resp.status = 404

\* C22: the buyer of every conversation differs from its seller, and its
\* seller is the owner of its listing; a create-or-get by the owner of the
\* listing is refused as a validation error (400) and returns the database as
\* it was: no conversation, message or notification is created.
BuyerIsNotSeller ==
    /\ \A i \in ConvIds(DB) :
          /\ conversations[i].buyer # conversations[i].seller
          /\ conversations[i].seller = AdOwner(conversations[i].ad)
    /\ \A ad \in Ads, im \in InitialMessages, nf \in BOOLEAN, tr \in Transport :
          LET r == CreateOrGetOp(DB, AdOwner(ad), ad, im, nf, tr)
          IN  /\ r.resp.status = 400
              /\ r.db = DB

\* C22 witness: two users hold conversations in both role orders, each on the
\* other's listing, and the seller of one of them is refused a conversation on
\* the own listing as a conversation with oneself.
OwnerRefusedOnOwnListing ==
    \E i \in ConvIds(DB), j \in ConvIds(DB) :
        /\ conversations[i].buyer = conversations[j].seller
        /\ conversations[i].seller = conversations[j].buyer
        /\ CreateOrGetOp(DB, conversations[i].seller, conversations[i].ad,
                         <<"hi">>, TRUE, "delivered").resp.detail = "self"

\* NotificationViewSet.get_queryset (no query parameters)
NotificationQueryset(d, user) ==
    {n \in NotifIds(d) : d.notifications[n].recipient = user}

\* Notification.mark_as_read
MarkNotification(d, n) ==
    IF d.notifications[n].is_read THEN d
    ELSE [d EXCEPT !.notifications[n].is_read = TRUE,
                   !.notifications[n].read_at = d.now,
                   !.now = d.now + 1]

\* NotificationViewSet.mark_read
MarkNotificationReadOp(d, user, n) ==
    IF n \notin NotificationQueryset(d, user)
    THEN Result(d, "notification_mark_read", 404, "not_found", 0)
    ELSE Result(MarkNotification(d, n), "notification_mark_read", 200, "ok", n)

\* NotificationViewSet.mark_all_read
MarkAllNotificationsReadOp(d, user) ==
    LET hit == {n \in NotifIds(d) : /\ d.notifications[n].recipient = user
                                    /\ ~d.notifications[n].is_read}
    IN  Result(IF hit = {} THEN d
               ELSE [d EXCEPT
                       !.notifications = [n \in NotifIds(d) |->
                           IF n \in hit
                           THEN [d.notifications[n] EXCEPT !.is_read = TRUE,
                                                           !.read_at = d.now]
                           ELSE d.notifications[n]],
                       !.now = d.now + 1],
               "notification_mark_all_read", 200, "ok", Cardinality(hit))

\* a bulk-clear that deletes the caller's notifications read or not
ClearAllOp_including_unread(d, user) ==
    LET hit == {n \in NotifIds(d) : d.notifications[n].recipient = user}
    IN  Result([d EXCEPT !.notifications =
                    [n \in NotifIds(d) \ hit |-> d.notifications[n]]],
               "clear_all", 200, "ok", Cardinality(hit))

\* NotificationViewSet.clear_all
ClearAllOp(d, user) ==
    LET hit == {n \in NotifIds(d) : /\ d.notifications[n].recipient = user
                                    /\ d.notifications[n].is_read}
    IN  Result([d EXCEPT !.notifications =
                    [n \in NotifIds(d) \ hit |-> d.notifications[n]]],
               "clear_all", 200, "ok", Cardinality(hit))

MarkNotificationRead(u, B) ==
    \E n \in NotifIds(DB) : Commit(MarkNotificationReadOp(DB, u, n), u, B, {})

MarkAllNotificationsRead(u, B) ==
    Commit(MarkAllNotificationsReadOp(DB, u), u, B, {})

ClearAll(u, B) == Commit(ClearAllOp(DB, u), u, B, {})

\* conversations are opened, and the sellers notified of them read and clear
\* their notifications
NotificationRun == Rows(NotificationMaxRows, 0, FALSE)

NotificationNext ==
    \E u \in Users :
        \/ CreateOrGet(u, NotificationRun, Delivered, {<<>>})
        \/ MarkNotificationRead(u, NotificationRun)
        \/ MarkAllNotificationsRead(u, NotificationRun)
        \/ ClearAll(u, NotificationRun)

NotificationSpec == Init /\ [][NotificationNext]_vars

\* the notifications of database d that user u is not the recipient of
NotificationsOfOthers(d, u) ==
    [n \in {k \in NotifIds(d) : d.notifications[k].recipient # u} |->
        d.notifications[n]]

\* C23: a bulk-clear by a recipient deletes exactly the notifications of that
\* recipient that are read and changes nothing else, so no unread notification
\* is deleted by it; and the notifications of the other recipients are the
\* same, in number and in every field, after a recipient's clear, mark-read or
\* mark-all-read.
ClearDeletesOwnReadNotificationsOnly ==
    \A u \in Users :
        LET c == ClearAllOp(DB, u).db
            a == MarkAllNotificationsReadOp(DB, u).db
        IN  /\ DOMAIN c.notifications =
                  {n \in NotifIds(DB) : ~(/\ notifications[n].recipient = u
                                          /\ notifications[n].is_read)}
            /\ \A n \in DOMAIN c.notifications :
                  c.notifications[n] = notifications[n]
            /\ c = [DB EXCEPT !.notifications = c.notifications]
            /\ NotificationsOfOthers(a, u) = NotificationsOfOthers(DB, u)
            /\ \A n \in NotifIds(DB) :
                  NotificationsOfOthers(MarkNotificationReadOp(DB, u, n).db, u)
                      = NotificationsOfOthers(DB, u)

\* C23 witness: a recipient holds a read and an unread notification while
\* another recipient holds a read one, and the first recipient's clear has
\* something to delete and something to keep.
ReadAndUnreadNotificationsOfTwoRecipients ==
    \E n \in NotifIds(DB), k \in NotifIds(DB), o \in NotifIds(DB) :
        /\ notifications[n].recipient = notifications[k].recipient
        /\ notifications[n].is_read
        /\ ~notifications[k].is_read
        /\ notifications[o].recipient # notifications[n].recipient
        /\ notifications[o].is_read
        /\ NotifIds(ClearAllOp(DB, notifications[n].recipient).db)
               = NotifIds(DB) \ {n}

\* create-or-get requests are handled concurrently, their database statements
\* interleaved, while block and unblock requests, each one UPDATE statement,
\* take effect in between
BlockRaceNext ==
    \/ \E u \in Users : AcceptCreateOrGet(u, Delivered, {<<>>})
    \/ StepCreateOrGet(Rows(RaceMaxConvs, 0, FALSE), Delivered)
    \/ \E u \in Users : Block(u, Rows(RaceMaxConvs, 0, FALSE))
    \/ \E u \in Users : Unblock(u, Rows(RaceMaxConvs, 0, FALSE))

BlockRaceSpec == Init /\ [][BlockRaceNext]_vars

\* C24: with create-or-get requests interleaved statement by statement with
\* block and unblock requests, the conversations of one pair of users are in
\* every state either all blocked or all not blocked.
PairBlockedAllOrNone ==
    \A i \in ConvIds(DB), j \in ConvIds(DB) :
        IsPair(conversations[j], conversations[i].buyer, conversations[i].seller)
            => conversations[i].is_blocked = conversations[j].is_blocked

\* ConversationViewSet.list: the caller's queryset in the order of
\* order_by("-last_message_at", "-created_at"), as the sequence of its ids
ListOp(d, user, status_filter, nulls_first) ==
    LET Q == ConversationQueryset(d, user, status_filter)
    IN  [k \in 1 .. Cardinality(Q) |->
            CHOOSE i \in Q :
                Cardinality({j \in Q : ComesBefore(d, j, i, nulls_first)}) = k - 1]

\* conversations are opened and messages sent
ListNext ==
    \E u \in Users : AppendRequest(u, Rows(ListMaxConvs, ListMaxMsgs, FALSE))

ListSpec == Init /\ [][ListNext]_vars

\* the time of the last activity of conversation i: last_message_at if it is
\* set, otherwise created_at
LastActivity(d, i) ==
    IF d.conversations[i].last_message_at # 0
    THEN d.conversations[i].last_message_at
    ELSE d.conversations[i].created_at

\* C25: the list of a caller's conversations is in descending order of
\* 'last_message_at if non-null, otherwise created_at', for every caller and
\* status filter, at whichever end the database puts a NULL last_message_at.
ListSortedByLastActivity ==
    \E nulls_first \in BOOLEAN :
        \A u \in Users, sf \in StatusFilters :
            LET l == ListOp(DB, u, sf, nulls_first)
            IN  \A k \in DOMAIN l, n \in DOMAIN l :
                    k < n => LastActivity(DB, l[k]) >= LastActivity(DB, l[n])

\* C26: in every state that conversation requests reach, a conversation is
\* blocked if and only if its blocked_by is set, and a blocked_by that is set
\* is the conversation's buyer or seller.
BlockedIffBlockedBy ==
    \A i \in ConvIds(DB) :
        /\ conversations[i].is_blocked <=> conversations[i].blocked_by # NoUser
        /\ conversations[i].blocked_by # NoUser =>
              IsParticipant(conversations[i], conversations[i].blocked_by)

\* C27: a create-or-get with an initial message that is answered with an
\* existing conversation (reused or reactivated) adds a notification for the
\* seller about that conversation, as a send of the same message does.
InitialMessageOnExistingConversationNotifiesSeller ==
    \A u \in Users, ad \in Ads :
        LET r == CreateOrGetOp(DB, u, ad, <<"hi">>, TRUE, "delivered")
        IN  r.resp.status = 201 /\ r.resp.detail = "existing" =>
                \E n \in NotifIds(r.db) \ NotifIds(DB) :
                    /\ r.db.notifications[n].recipient = AdOwner(ad)
                    /\ r.db.notifications[n].conversation = r.resp.val

\* MessageViewSet.flag, statement by statement: get_object loads the row of
\* message r.msg (kept in r.loaded), then message.save() writes every column of
\* the loaded object, is_flagged set, and sends post_save with created = False
FlagStep(d, r) ==
    CASE r.pc = "start" ->
            IF r.msg \notin MessageQueryset(d, r.user)
            THEN [db |-> d, req |-> Finished(r, 404)]
            ELSE [db |-> d,
                  req |-> [r EXCEPT !.loaded = d.messages[r.msg], !.pc = "save"]]
      [] OTHER ->
            LET row == [r.loaded EXCEPT !.is_flagged = TRUE]
                d1 == [d EXCEPT !.messages = (r.msg :> row) @@ d.messages]
            IN  [db |-> IF row.conversation \in ConvIds(d)
                        THEN message_created(d1, r.msg, FALSE,
                                 d.conversations[row.conversation].last_message_at)
                        ELSE d1,
                 req |-> Finished(r, 200)]

AcceptFlag(u) ==
    \E m \in MsgIds(DB) :
        Accept(FlagStep(DB, [Request("flag", u, "none", <<>>, 0, "text")
                                 EXCEPT !.msg = m]))

StepFlag(B) ==
    \E r \in BagToSet(inflight) :
        /\ r.kind = "flag"
        /\ Handle(r, FlagStep(DB, r), B)

\* conversations are opened with a first message; flag requests are handled
\* statement by statement while mark-all-read and retrieve requests, each
\* marking with one UPDATE statement, take effect in between
FlagRun == Rows(FlagMaxConvs, FlagMaxMsgs, FALSE)

FlagRaceNext ==
    \/ \E u \in Users :
          now <= FlagMaxTime /\ CreateOrGet(u, FlagRun, Delivered, {<<"hi">>})
    \/ \E u \in Users : now <= FlagMaxTime /\ AcceptFlag(u)
    \/ now <= FlagMaxTime /\ StepFlag(FlagRun)
    \/ \E u \in Users : now <= FlagMaxTime /\ MarkAllRead(u, FlagRun)
    \/ \E u \in Users : now <= FlagMaxTime /\ Retrieve(u, FlagRun)

FlagRaceSpec == Init /\ [][FlagRaceNext]_vars

\* C28: with flag requests interleaved statement by statement with
\* mark-all-read and retrieve requests, no step takes a message's is_read from
\* true back to false.
IsReadNeverReset ==
    [][\A m \in MsgIds(DB) :
          messages[m].is_read => messages'[m].is_read]_vars

\* ConversationViewSet.archive (r.kind = "archive") and unarchive, statement by
\* statement: get_object loads the row of conversation r.conv, then
\* conversation.save() writes every column of the loaded object, is_active set
SetActiveStep(d, r) ==
    CASE r.pc = "start" ->
            IF r.conv \notin ConversationQueryset(d, r.user, "all")
            THEN [db |-> d, req |-> Finished(r, 404)]
            ELSE IF ~IsParticipant(d.conversations[r.conv], r.user)
            THEN [db |-> d, req |-> Finished(r, 403)]
            ELSE [db |-> d,
                  req |-> [r EXCEPT !.loaded = d.conversations[r.conv],
                                    !.pc = "save"]]
      [] OTHER ->
            [db |-> SaveConversation(d, r.conv,
                        [r.loaded EXCEPT !.is_active = (r.kind = "unarchive")]),
             req |-> Finished(r, 200)]

AcceptSetActive(u) ==
    \E i \in ConvIds(DB), kind \in {"archive", "unarchive"} :
        Accept(SetActiveStep(DB, Request(kind, u, "none", <<>>, i, "text")))

StepSetActive(B) ==
    \E r \in BagToSet(inflight) :
        /\ r.kind \in {"archive", "unarchive"}
        /\ Handle(r, SetActiveStep(DB, r), B)

ArchiveRun == Rows(ArchiveMaxConvs, ArchiveMaxMsgs, FALSE)

\* create-or-get, archive and unarchive requests are handled statement by
\* statement while block and send requests take effect in between
ArchiveRaceNext ==
    \/ \E u \in Users : AcceptCreateOrGet(u, Delivered, {<<>>})
    \/ StepCreateOrGet(ArchiveRun, Delivered)
    \/ \E u \in Users : AcceptSetActive(u)
    \/ StepSetActive(ArchiveRun)
    \/ \E u \in Users : Block(u, ArchiveRun)
    \/ \E u \in Users : SendMessage(u, ArchiveRun, Delivered)

ArchiveRaceSpec == Init /\ [][ArchiveRaceNext]_vars

\* C29: with archive, unarchive and create-or-get requests interleaved
\* statement by statement with block and send requests, and no unblock
\* request made, no step takes a blocked conversation back to not blocked or
\* clears its blocked_by, and no step lowers a conversation's last_message_at.
FullSaveKeepsBlockAndLastMessageAt ==
    [][\A i \in ConvIds(DB) :
          /\ conversations[i].is_blocked =>
                /\ conversations'[i].is_blocked
                /\ conversations'[i].blocked_by # NoUser
          /\ conversations'[i].last_message_at >= conversations[i].last_message_at]_vars

SendRaceRun == Rows(SendRaceMaxConvs, SendRaceMaxMsgs, FALSE)

\* conversations are opened; sends of text messages are handled statement by
\* statement while block and unblock requests take effect in between
SendRaceNext ==
    \/ \E u \in Users : CreateOrGet(u, SendRaceRun, Delivered, {<<>>})
    \/ \E u \in Users : AcceptAppendOfType(u, Delivered, {"text"})
    \/ StepAppend(SendRaceRun, Delivered)
    \/ \E u \in Users : Block(u, SendRaceRun)
    \/ \E u \in Users : Unblock(u, SendRaceRun)

SendRaceSpec == Init /\ [][SendRaceNext]_vars

\* C30: with sends interleaved statement by statement with block requests, no
\* step inserts a message into a conversation that, when the insert is made,
\* is blocked by the participant who is not the sender, and no step adds a
\* new_message notification for the participant who has the conversation
\* blocked at that moment.
NoInsertIntoBlockedConversation ==
    [][/\ \A m \in DOMAIN messages' \ DOMAIN messages :
              LET c == conversations[messages'[m].conversation]
              IN  ~(c.is_blocked /\ c.blocked_by # messages'[m].sender)
       /\ \A n \in DOMAIN notifications' \ DOMAIN notifications :
              LET c == conversations[notifications'[n].conversation]
              IN  notifications'[n].notification_type = "new_message" =>
                      ~(c.is_blocked /\ c.blocked_by = notifications'[n].recipient)]_vars

====
